---- MODULE Spec2Model ----
(***************************************************************************)
(* The block indentation plugin (packages/ckeditor5-indent/src/             *)
(* indentblock.ts): its constructor, init and afterInit, the conversion     *)
(* rules it registers, and those rules applied to view elements and model   *)
(* values.                                                                  *)
(*                                                                          *)
(* An optional JavaScript value is a set of at most one element: None is    *)
(* `undefined`, Some(x) is the value x.                                     *)
(***************************************************************************)
EXTENDS Integers, Sequences, FiniteSets, TLC

\* ------------------------------------------------------------------ bounds

\* Longest `indentBlock.classes` list the editor is configured with.
MaxClasses == 2

\* Longest `heading.options` list the editor is configured with.
MaxHeadingOptions == 2

\* Indentation lengths in the content are 40px, 80px, ... MaxSteps * 40px.
MaxSteps == 2

\* ------------------------------------------------------------ JS values

None == {}

Some(x) == {x}

\* The value held by a defined optional.
Get(o) == CHOOSE x \in o : TRUE

\* JavaScript truthiness of an optional string.
Truthy(o) == o # None /\ o # Some("")

Range(s) == {s[i] : i \in 1..Len(s)}

SeqsUpTo(S, n) == UNION {[1..k -> S] : k \in 0..n}

\* --------------------------------------------------------- the plugin

DEFAULT_ELEMENTS ==
    <<"paragraph", "heading1", "heading2", "heading3", "heading4", "heading5", "heading6">>

DefaultOffset == 40

\* The object literal handed to editor.config.define( 'indentBlock', ... ).
IndentBlockDefaults ==
    [attribute |-> Some("margin-left"), offset |-> Some(DefaultOffset), unit |-> Some("px"),
     classes |-> None]

\* What the first property of that literal can come out as.  Its separator is
\* U+FF1A (fullwidth colon), which is no token of the language: the literal is
\* rejected ("invalid"), unless the character is an artifact of how the file was
\* stored and the build sees an ordinary colon ("colon").
LiteralOutcomes == {"colon", "invalid"}

\* Config.define: a default is taken for every key the user left unset.
ConfigDefine(cfg, defaults) ==
    [k \in DOMAIN cfg |-> IF cfg[k] # None THEN cfg[k] ELSE defaults[k]]

VARIABLES
    phase,              \* where the plugin is in its life cycle
    error,              \* the error an operation raised, "none" if none
    userConfig,         \* the `indentBlock` configuration the user supplied
    config,             \* editor.config's `indentBlock` entry
    headingOptions,     \* editor.config's `heading.options`: the options' model names
    direction,          \* editor.locale.contentLanguageDirection
    editorIndentBlock,  \* editor.indentBlock
    schemaItems,        \* schema: registered element name -> allowed attributes
    extendCalls,        \* element names schema.extend was called with
    formattingAttrs,    \* attributes with the property isFormatting: true
    commands,           \* editor.commands: name -> command
    styleRules,         \* style processor rule sets added to editor.data
    upcastRules,        \* conversion.for( 'upcast' ) rules
    downcastRules,      \* conversion.for( 'downcast' ) rules
    twoWay,             \* conversion.attributeToAttribute definitions
    doc                 \* the content going through the conversion

vars == <<phase, error, userConfig, config, headingOptions, direction, editorIndentBlock,
          schemaItems, extendCalls, formattingAttrs, commands, styleRules, upcastRules,
          downcastRules, twoWay, doc>>

\* --------------------------------------------------- command behaviours

\* new IndentUsingClasses( { direction, classes } )
IndentUsingClasses(dir, classes) ==
    [kind |-> "classes", direction |-> dir, classes |-> classes,
     attribute |-> None, offset |-> None, unit |-> None]

\* new IndentUsingOffset( { direction, attribute, offset, unit } )
IndentUsingOffset(dir, attribute, offset, unit) ==
    [kind |-> "offset", direction |-> dir, classes |-> None,
     attribute |-> attribute, offset |-> offset, unit |-> unit]

\* new IndentBlockCommand( editor, behavior )
IndentBlockCommand(behavior) == [type |-> "IndentBlockCommand", behavior |-> behavior]

\* editor.commands.add( name, command )
CommandsAdd(cmds, name, cmd) == (name :> cmd) @@ cmds

\* --------------------------------------------------- conversion set-up

\* The style property the offset conversion works on.
MarginProperty(indentBlock, dir) ==
    IF Truthy(indentBlock.attribute) THEN "text-indent"
    ELSE IF dir = "rtl" THEN "margin-right" ELSE "margin-left"

\* The upcast rule of _setupConversionUsingOffset: elements whose inline style
\* has `property` set; its value callback is UpcastValue below.
OffsetUpcastRule(marginProperty) ==
    [view |-> [styles |-> marginProperty], model |-> [key |-> "blockIndent"]]

\* The downcast rule of _setupConversionUsingOffset; its view callback is
\* DowncastView below, closed over `marginProperty`.
OffsetDowncastRule(marginProperty) ==
    [model |-> "blockIndent", view |-> [styles |-> marginProperty]]

\* The definition with every value mapped to the first class of the list.
RECURSIVE ClassesDefinition_FirstClass(_, _)
ClassesDefinition_FirstClass(classes, n) ==
    IF n = 0
    THEN [model |-> [key |-> "blockIndent", values |-> <<>>], view |-> <<>>]
    ELSE LET d == ClassesDefinition_FirstClass(classes, n - 1)
             className == classes[n]
         IN  [model |-> [key |-> "blockIndent", values |-> Append(d.model.values, className)],
              view |-> (className :> [key |-> "class", value |-> <<classes[1]>>]) @@ d.view]

\* `definition` of _setupConversionUsingClasses after the first n classes.
RECURSIVE ClassesDefinition(_, _)
ClassesDefinition(classes, n) ==
    IF n = 0
    THEN [model |-> [key |-> "blockIndent", values |-> <<>>], view |-> <<>>]
    ELSE LET d == ClassesDefinition(classes, n - 1)
             className == classes[n]
         IN  [model |-> [key |-> "blockIndent", values |-> Append(d.model.values, className)],
              view |-> (className :> [key |-> "class", value |-> <<className>>]) @@ d.view]

\* --------------------------------------------------- view elements

StyleProperties == {"margin-left", "margin-right", "text-indent"}

\* viewElement.getStyle( property )
GetStyle(el, property) ==
    IF el.styles[property] = "" THEN None ELSE Some(el.styles[property])

\* The value callback without its list item exception.
UpcastValue_NoListItemTest(viewElement, marginProperty) ==
    GetStyle(viewElement, marginProperty)

\* The `value` callback of the offset upcast rule.
UpcastValue(viewElement, marginProperty) ==
    IF viewElement.name # "li" THEN GetStyle(viewElement, marginProperty) ELSE None

\* The view callback writing margin-left whatever the property of the rule.
DowncastView_AlwaysMarginLeft(marginProperty, modelAttributeValue) ==
    [key |-> "style", value |-> ("margin-left" :> modelAttributeValue)]

\* The `view` callback of the offset downcast rule.
DowncastView(marginProperty, modelAttributeValue) ==
    [key |-> "style", value |-> (marginProperty :> modelAttributeValue)]

\* The matcher of the offset upcast rule: the style is present with a value
\* the pattern /[\s\S]+/ matches, which is every non-empty string.
StyleMatches(viewElement, rule) == viewElement.styles[rule.view.styles] # ""

\* --------------------------------------------------- conversion applied

\* A two-way class definition applied to a view element: the first configured
\* value, in list order, whose classes the element bears.
RECURSIVE ClassUpcast(_, _, _)
ClassUpcast(definition, viewElement, i) ==
    IF i > Len(definition.model.values) THEN None
    ELSE LET v == definition.model.values[i]
         IN  IF Range(definition.view[v].value) \subseteq viewElement.classes
             THEN Some(v)
             ELSE ClassUpcast(definition, viewElement, i + 1)

\* A two-way class definition applied to a model value.
ClassDowncast(definition, modelAttributeValue) ==
    IF modelAttributeValue \in Range(definition.model.values)
    THEN Some(definition.view[modelAttributeValue])
    ELSE None

\* The blockIndent value the registered rules give a view element.
Upcast(viewElement) ==
    IF upcastRules # <<>>
    THEN IF StyleMatches(viewElement, upcastRules[1])
         THEN UpcastValue(viewElement, upcastRules[1].view.styles)
         ELSE None
    ELSE IF twoWay # <<>>
         THEN ClassUpcast(twoWay[1], viewElement, 1)
         ELSE None

\* The view attribute the registered rules give a blockIndent value.
Downcast(modelAttributeValue) ==
    IF downcastRules # <<>>
    THEN Some(DowncastView(downcastRules[1].view.styles, modelAttributeValue))
    ELSE IF twoWay # <<>>
         THEN ClassDowncast(twoWay[1], modelAttributeValue)
         ELSE None

NoStyles == [p \in StyleProperties |-> ""]

\* The block a view attribute descriptor is rendered as.
Rendered(descriptor) ==
    [name |-> "p",
     styles |-> IF descriptor.key = "style"
                THEN [p \in StyleProperties |->
                        IF p \in DOMAIN descriptor.value THEN descriptor.value[p] ELSE ""]
                ELSE NoStyles,
     classes |-> IF descriptor.key = "class" THEN Range(descriptor.value) ELSE {}]

EmptyDoc ==
    [view |-> None, blockIndent |-> None, rendered |-> None, source |-> "none",
     original |-> None]

\* --------------------------------------------------- plugin life cycle

\* constructor: editor.config.define( 'indentBlock', { ... } )
Constructor(outcome) ==
    /\ phase = "new"
    /\ IF outcome = "colon"
       THEN /\ config' = ConfigDefine(config, IndentBlockDefaults)
            /\ phase' = "constructed"
            /\ error' = "none"
       ELSE /\ config' = config
            /\ phase' = "ctorFailed"
            /\ error' = "SyntaxError"
    /\ UNCHANGED <<userConfig, headingOptions, direction, editorIndentBlock, schemaItems,
                   extendCalls, formattingAttrs, commands, styleRules, upcastRules,
                   downcastRules, twoWay, doc>>

\* The condition of init without its length test.
UsesClasses_NoLengthTest(configuration) == configuration.classes # None

\* The condition of init: configuration.classes && configuration.classes.length
UsesClasses(configuration) ==
    configuration.classes # None /\ Len(Get(configuration.classes)) > 0

\* The commands init adds.
InitCommands(configuration) ==
    IF UsesClasses(configuration)
    THEN [indentBlock |-> IndentBlockCommand(
              IndentUsingClasses("forward", configuration.classes)),
          outdentBlock |-> IndentBlockCommand(
              IndentUsingClasses("backward", configuration.classes))]
    ELSE [indentBlock |-> IndentBlockCommand(
              IndentUsingOffset("forward", configuration.attribute,
                                configuration.offset, configuration.unit)),
          outdentBlock |-> IndentBlockCommand(
              IndentUsingOffset("backward", configuration.attribute,
                                configuration.offset, configuration.unit))]

\* init()
PluginInit ==
    /\ phase = "constructed"
    /\ LET configuration == config
           marginProperty == MarginProperty(editorIndentBlock, direction)
           added == InitCommands(configuration)
       IN  /\ IF UsesClasses(configuration)
              THEN /\ twoWay' = Append(twoWay,
                         ClassesDefinition(Get(configuration.classes),
                                           Len(Get(configuration.classes))))
                   /\ UNCHANGED <<styleRules, upcastRules, downcastRules>>
              ELSE /\ styleRules' = styleRules \cup {"addMarginRules"}
                   /\ upcastRules' = Append(upcastRules, OffsetUpcastRule(marginProperty))
                   /\ downcastRules' = Append(downcastRules, OffsetDowncastRule(marginProperty))
                   /\ UNCHANGED twoWay
           /\ commands' = CommandsAdd(CommandsAdd(commands, "indentBlock", added.indentBlock),
                                      "outdentBlock", added.outdentBlock)
    /\ phase' = "initialized"
    /\ UNCHANGED <<error, userConfig, config, headingOptions, direction, editorIndentBlock,
                   schemaItems, extendCalls, formattingAttrs, doc>>

\* knownElements with the defaults added to the configured heading options.
KnownElements_DefaultsAdded(options) ==
    IF options # None
    THEN Range(Get(options)) \cup Range(DEFAULT_ELEMENTS)
    ELSE Range(DEFAULT_ELEMENTS)

\* knownElements of afterInit
KnownElements(options) ==
    IF options # None THEN Range(Get(options)) ELSE Range(DEFAULT_ELEMENTS)

\* The elements extended when schema.isRegistered is not asked.
ExtendedElements_NoRegisteredTest(knownElements, items) == knownElements

\* The elements afterInit calls schema.extend for.
ExtendedElements(knownElements, items) ==
    {elementName \in knownElements : elementName \in DOMAIN items}

\* schema.extend( elementName, { allowAttributes: attribute } ) for each name
SchemaExtend(items, names, attribute) ==
    [n \in DOMAIN items |-> IF n \in names THEN items[n] \cup {attribute} ELSE items[n]]

\* multiCommand.registerChildCommand( child )
RegisterChildCommand(cmds, parent, child) ==
    [cmds EXCEPT ![parent] = [@ EXCEPT !.children = Append(@, child)]]

\* The two registerChildCommand calls with the children crossed.
LinkCommands_Crossed(cmds) ==
    IF "indent" \notin DOMAIN cmds
    THEN [commands |-> cmds, error |-> "TypeError"]
    ELSE LET linked == RegisterChildCommand(cmds, "indent", "outdentBlock")
         IN  IF "outdent" \notin DOMAIN cmds
             THEN [commands |-> linked, error |-> "TypeError"]
             ELSE [commands |-> RegisterChildCommand(linked, "outdent", "indentBlock"),
                   error |-> "none"]

\* The two registerChildCommand calls of afterInit, up to the first one whose
\* parent editor.commands.get() did not return.
LinkCommands(cmds) ==
    IF "indent" \notin DOMAIN cmds
    THEN [commands |-> cmds, error |-> "TypeError"]
    ELSE LET linked == RegisterChildCommand(cmds, "indent", "indentBlock")
         IN  IF "outdent" \notin DOMAIN cmds
             THEN [commands |-> linked, error |-> "TypeError"]
             ELSE [commands |-> RegisterChildCommand(linked, "outdent", "outdentBlock"),
                   error |-> "none"]

\* afterInit()
AfterInit ==
    /\ phase = "initialized"
    /\ LET extended == ExtendedElements(KnownElements(headingOptions), schemaItems)
           linked == LinkCommands(commands)
       IN  /\ schemaItems' = SchemaExtend(schemaItems, extended, "blockIndent")
           /\ extendCalls' = extendCalls \cup extended
           /\ formattingAttrs' = formattingAttrs \cup {"blockIndent"}
           /\ commands' = linked.commands
           /\ error' = linked.error
           /\ phase' = IF linked.error = "none" THEN "ready" ELSE "afterInitFailed"
    /\ UNCHANGED <<userConfig, config, headingOptions, direction, editorIndentBlock,
                   styleRules, upcastRules, downcastRules, twoWay, doc>>

\* --------------------------------------------------- the editor at work

\* Content is loaded: the view element is upcast.
SetData(viewElement) ==
    /\ phase = "ready"
    /\ doc' = [view |-> Some(viewElement), blockIndent |-> Upcast(viewElement),
               rendered |-> None, source |-> "view", original |-> None]
    /\ UNCHANGED <<phase, error, userConfig, config, headingOptions, direction,
                   editorIndentBlock, schemaItems, extendCalls, formattingAttrs, commands,
                   styleRules, upcastRules, downcastRules, twoWay>>

\* The model changes: the block's blockIndent is set.
SetBlockIndent(value) ==
    /\ phase = "ready"
    /\ doc' = [view |-> None, blockIndent |-> Some(value), rendered |-> None,
               source |-> "model", original |-> None]
    /\ UNCHANGED <<phase, error, userConfig, config, headingOptions, direction,
                   editorIndentBlock, schemaItems, extendCalls, formattingAttrs, commands,
                   styleRules, upcastRules, downcastRules, twoWay>>

\* The model is rendered: the block's blockIndent is downcast.
GetData ==
    /\ phase = "ready"
    /\ doc.blockIndent # None
    /\ doc.rendered = None
    /\ doc' = [doc EXCEPT !.rendered = Downcast(Get(doc.blockIndent))]
    /\ UNCHANGED <<phase, error, userConfig, config, headingOptions, direction,
                   editorIndentBlock, schemaItems, extendCalls, formattingAttrs, commands,
                   styleRules, upcastRules, downcastRules, twoWay>>

\* The rendered content is loaded back.
Reload ==
    /\ phase = "ready"
    /\ doc.rendered # None
    /\ LET viewElement == Rendered(Get(doc.rendered))
       IN  doc' = [view |-> Some(viewElement), blockIndent |-> Upcast(viewElement),
                   rendered |-> None, source |-> "rendered", original |-> doc.blockIndent]
    /\ UNCHANGED <<phase, error, userConfig, config, headingOptions, direction,
                   editorIndentBlock, schemaItems, extendCalls, formattingAttrs, commands,
                   styleRules, upcastRules, downcastRules, twoWay>>

\* --------------------------------------------------- inputs

ClassNames == {"indent-a", "indent-b"}

HeadingModels == {"paragraph", "headingFancy"}

\* Lengths found in content: multiples of the default step.
Lengths == {ToString(k * DefaultOffset) \o "px" : k \in 1..MaxSteps}

NoUserConfig == [attribute |-> None, offset |-> None, unit |-> None, classes |-> None]

ClassLists == {None} \cup {Some(s) : s \in SeqsUpTo(ClassNames, MaxClasses)}

UserConfigs ==
    {[attribute |-> a, offset |-> ou[1], unit |-> ou[2], classes |-> c] :
        a \in {None, Some("text-indent")},
        ou \in {<<None, None>>, <<Some(20), Some("em")>>},
        c \in ClassLists}

FewUserConfigs ==
    {NoUserConfig, [NoUserConfig EXCEPT !.classes = Some(<<"indent-a">>)]}

HeadingOptionLists == {None} \cup {Some(s) : s \in SeqsUpTo(HeadingModels, MaxHeadingOptions)}

\* A schema with the given elements registered, none allowing blockIndent yet.
SchemaWith(names) == [n \in names |-> IF n = "paragraph" THEN {"alignment"} ELSE {}]

Schemas == {SchemaWith(S \cup {"$root"}) : S \in SUBSET {"paragraph", "heading1", "headingFancy"}}

MultiCommand(children) == [type |-> "MultiCommand", children |-> children]

\* editor.commands before init: the 'indent' / 'outdent' multi-commands the
\* Indent plugin adds, when it is loaded, with or without earlier children.
CommandRegistries ==
    {[n \in P |-> MultiCommand(IF n = "indent" THEN c[1] ELSE c[2])] :
        P \in SUBSET {"indent", "outdent"},
        c \in {<<<<>>, <<>>>>, <<<<"indentList">>, <<"outdentList">>>>}}

FullRegistry == [n \in {"indent", "outdent"} |-> MultiCommand(<<>>)]

IndentBlockObjects == {[attribute |-> a] : a \in {None, Some(""), Some("margin-left")}}

StyledElements ==
    {[name |-> n, styles |-> s, classes |-> {}] :
        n \in {"p", "li"}, s \in [StyleProperties -> Lengths \cup {""}]}

ClassedElements ==
    {[name |-> n, styles |-> NoStyles, classes |-> c] :
        n \in {"p", "li"}, c \in SUBSET (ClassNames \cup {"other"})}

ViewElements == StyledElements \cup ClassedElements

ModelValues == Lengths \cup ClassNames

FewViewElements ==
    {[name |-> n, styles |-> [NoStyles EXCEPT !["margin-left"] = "40px"], classes |-> {}] :
        n \in {"p", "li"}}

FewModelValues == {"40px"}

\* --------------------------------------------------- specifications

InitWith(configs, optionLists, schemas, registries, indentBlocks, directions) ==
    /\ phase = "new"
    /\ error = "none"
    /\ userConfig \in configs
    /\ config = userConfig
    /\ headingOptions \in optionLists
    /\ direction \in directions
    /\ editorIndentBlock \in indentBlocks
    /\ schemaItems \in schemas
    /\ extendCalls = {}
    /\ formattingAttrs = {}
    /\ commands \in registries
    /\ styleRules = {}
    /\ upcastRules = <<>>
    /\ downcastRules = <<>>
    /\ twoWay = <<>>
    /\ doc = EmptyDoc

NextWith(elements, values) ==
    \/ \E outcome \in LiteralOutcomes : Constructor(outcome)
    \/ PluginInit
    \/ AfterInit
    \/ \E viewElement \in elements : SetData(viewElement)
    \/ \E value \in values : SetBlockIndent(value)
    \/ GetData
    \/ Reload

\* Every configuration and every content, in an editor with the Indent plugin.
Init ==
    InitWith(UserConfigs, {None}, {SchemaWith({"$root", "paragraph", "heading1"})},
             {FullRegistry}, IndentBlockObjects, {"ltr", "rtl"})

Next == NextWith(ViewElements, ModelValues)

Spec == Init /\ [][Next]_vars

\* Every schema, heading configuration and command registry.
InitSetup ==
    InitWith(FewUserConfigs, HeadingOptionLists, Schemas, CommandRegistries,
             {[attribute |-> None]}, {"ltr"})

NextSetup == NextWith(FewViewElements, FewModelValues)

SpecSetup == InitSetup /\ [][NextSetup]_vars

\* --------------------------------------------------- properties

\* init has run.
Initialized == phase \in {"initialized", "ready", "afterInitFailed"}

\* afterInit has run, to its end or to an error.
AfterInitRan == phase \in {"ready", "afterInitFailed"}

\* The user configured a non-empty `indentBlock.classes`.
ClassesConfigured == userConfig.classes # None /\ Get(userConfig.classes) # <<>>

\* The offset / the classes strategy is the one in use.
OffsetInUse == Initialized /\ upcastRules # <<>>

ClassesInUse == Initialized /\ twoWay # <<>>

Occurrences(s, x) == Cardinality({i \in 1..Len(s) : s[i] = x})

BehaviorKinds ==
    {commands["indentBlock"].behavior.kind, commands["outdentBlock"].behavior.kind}

LoadedElement == Get(doc.view)

MatchedProperty == upcastRules[1].view.styles

\* C2: under the offset strategy, a list item carrying the indent style is upcast
\* to no blockIndent value, and any other element carrying it is upcast to the raw
\* value of that style.
C2_ListItemExemption ==
    (OffsetInUse /\ doc.source = "view"
        /\ LoadedElement.styles[MatchedProperty] # "") =>
        IF LoadedElement.name = "li"
        THEN doc.blockIndent = None
        ELSE doc.blockIndent = Some(LoadedElement.styles[MatchedProperty])

C2_Witness ==
    /\ OffsetInUse
    /\ doc.source = "view"
    /\ LoadedElement.name = "li"
    /\ LoadedElement.styles[MatchedProperty] = "40px"
    /\ doc.blockIndent = None

\* C3: under the offset strategy upcast and downcast are inverses.  The view
\* rendered from an upcast element carries the element's value on the same
\* property, and loading a rendered value back gives that value; a list item is
\* upcast to nothing, so nothing is rendered from it.
C3_RoundTrip ==
    OffsetInUse =>
        /\ (doc.source = "view" /\ doc.rendered # None) =>
              /\ LoadedElement.name # "li"
              /\ doc.rendered =
                    Some([key |-> "style",
                          value |-> (MatchedProperty :> LoadedElement.styles[MatchedProperty])])
        /\ doc.source = "rendered" => doc.blockIndent = doc.original
        /\ (doc.source = "view" /\ LoadedElement.name = "li") =>
              (doc.blockIndent = None /\ doc.rendered = None)

C3_Witness ==
    /\ OffsetInUse
    /\ direction = "rtl"
    /\ doc.source = "rendered"
    /\ doc.original = Some("80px")
    /\ doc.blockIndent = Some("80px")

\* C4: under the offset strategy the property the upcast rule matches and the
\* downcast rule emits is the one configured in `indentBlock.attribute`.
C4_ConfiguredProperty ==
    OffsetInUse =>
        /\ upcastRules[1].view.styles = Get(config.attribute)
        /\ downcastRules[1].view.styles = Get(config.attribute)

\* C5: afterInit leaves the set of registered elements as it was, calls
\* schema.extend for registered elements only, and adds blockIndent only to
\* elements that were registered.
C5_SchemaGating ==
    [][ /\ DOMAIN schemaItems' = DOMAIN schemaItems
        /\ extendCalls' \subseteq DOMAIN schemaItems
        /\ \A n \in DOMAIN schemaItems' :
              "blockIndent" \in schemaItems'[n] => n \in DOMAIN schemaItems ]_vars

C5_Witness ==
    /\ AfterInitRan
    /\ headingOptions = None
    /\ "heading1" \notin DOMAIN schemaItems
    /\ "paragraph" \in DOMAIN schemaItems
    /\ "blockIndent" \in schemaItems["paragraph"]
    /\ extendCalls = {"paragraph"}

\* C6: after init and afterInit in an editor holding the 'indent' and 'outdent'
\* multi-commands, 'indentBlock' is a child of 'indent' and 'outdentBlock' a
\* child of 'outdent', each once and never crossed, under either strategy.
C6_CommandsLinked ==
    (AfterInitRan /\ {"indent", "outdent"} \subseteq DOMAIN commands) =>
        /\ phase = "ready"
        /\ Occurrences(commands["indent"].children, "indentBlock") = 1
        /\ Occurrences(commands["outdent"].children, "outdentBlock") = 1
        /\ Occurrences(commands["indent"].children, "outdentBlock") = 0
        /\ Occurrences(commands["outdent"].children, "indentBlock") = 0
        /\ commands["indentBlock"].behavior.direction = "forward"
        /\ commands["outdentBlock"].behavior.direction = "backward"

C6_Witness ==
    /\ phase = "ready"
    /\ ClassesConfigured
    /\ commands["indent"].children = <<"indentList", "indentBlock">>
    /\ commands["outdent"].children = <<"outdentList", "outdentBlock">>

\* The elements afterInit is to consider.
Considered ==
    IF headingOptions = None
    THEN {"paragraph", "heading1", "heading2", "heading3", "heading4", "heading5", "heading6"}
    ELSE Range(Get(headingOptions))

\* C7: afterInit considers paragraph and heading1..heading6 without a
\* `heading.options` configuration and exactly the configured options' models
\* with one; blockIndent ends up allowed on precisely the considered elements
\* that are registered.
C7_KnownElements ==
    AfterInitRan =>
        /\ {n \in DOMAIN schemaItems : "blockIndent" \in schemaItems[n]}
              = Considered \cap DOMAIN schemaItems
        /\ extendCalls = Considered \cap DOMAIN schemaItems

C7_Witness ==
    /\ AfterInitRan
    /\ headingOptions = Some(<<"headingFancy">>)
    /\ {"paragraph", "headingFancy"} \subseteq DOMAIN schemaItems
    /\ "blockIndent" \in schemaItems["headingFancy"]
    /\ "blockIndent" \notin schemaItems["paragraph"]

\* C8: without an `indentBlock` configuration of the user, the constructor
\* defines attribute "margin-left", offset 40, unit "px" and no classes, and init
\* builds both commands with the offset behaviour on exactly these.
C8_Defaults ==
    (userConfig = NoUserConfig /\ phase # "new") =>
        /\ config = [attribute |-> Some("margin-left"), offset |-> Some(40),
                     unit |-> Some("px"), classes |-> None]
        /\ Initialized =>
              /\ commands["indentBlock"] =
                    IndentBlockCommand([kind |-> "offset", direction |-> "forward",
                        classes |-> None, attribute |-> Some("margin-left"),
                        offset |-> Some(40), unit |-> Some("px")])
              /\ commands["outdentBlock"] =
                    IndentBlockCommand([kind |-> "offset", direction |-> "backward",
                        classes |-> None, attribute |-> Some("margin-left"),
                        offset |-> Some(40), unit |-> Some("px")])

\* C9: without the 'indent' / 'outdent' multi-commands afterInit raises no error,
\* extends the schema for the registered candidates, marks blockIndent as a
\* formatting attribute and attaches the block commands to no parent.
C9_UsableWithoutIndent ==
    (AfterInitRan /\ "indent" \notin DOMAIN commands /\ "outdent" \notin DOMAIN commands) =>
        /\ error = "none"
        /\ phase = "ready"
        /\ "blockIndent" \in formattingAttrs
        /\ extendCalls = Considered \cap DOMAIN schemaItems

\* The class definition registered and the configured class list.
Definition == twoWay[1]

ConfiguredClasses == Get(userConfig.classes)

\* C10: under the classes strategy the one registered definition has
\* model.values equal to the configured list, in order, and maps each value c to
\* the class [c] with key `class`; a configured value is rendered as exactly its
\* class and loaded back as itself, an element bearing one configured class is
\* upcast to it, and no value outside the list is produced.
C10_ClassDefinition ==
    ClassesInUse =>
        /\ Len(twoWay) = 1
        /\ Definition.model = [key |-> "blockIndent", values |-> ConfiguredClasses]
        /\ DOMAIN Definition.view = Range(ConfiguredClasses)
        /\ \A c \in Range(ConfiguredClasses) :
              Definition.view[c] = [key |-> "class", value |-> <<c>>]
        /\ (doc.rendered # None /\ Get(doc.blockIndent) \in Range(ConfiguredClasses)) =>
              doc.rendered = Some([key |-> "class", value |-> <<Get(doc.blockIndent)>>])
        /\ doc.source = "rendered" => doc.blockIndent = doc.original
        /\ doc.source = "view" =>
              /\ doc.blockIndent \subseteq Range(ConfiguredClasses)
              /\ \A c \in Range(ConfiguredClasses) :
                    LoadedElement.classes \cap Range(ConfiguredClasses) = {c}
                        => doc.blockIndent = Some(c)

C10_Witness ==
    /\ ClassesInUse
    /\ ConfiguredClasses = <<"indent-a", "indent-b">>
    /\ doc.source = "rendered"
    /\ doc.original = Some("indent-b")
    /\ doc.blockIndent = Some("indent-b")
    /\ LoadedElement.classes = {"indent-b"}

====
